---- MODULE Spec2Model ----
(***************************************************************************)
(* Model of the subtitle translation pipeline of unicorns18/Subtitler:     *)
(* FileReader.read (src/file_handling/filereader.py), followed by          *)
(* SubtitleTranslation.translate and SubtitleTranslation.save and the      *)
(* module-level script that runs them                                      *)
(* (src/subtitles/subtitle_translation.py).                                *)
(*                                                                         *)
(* A caption text is a sequence of lines (a blank line is "").  An .srt     *)
(* file is a sequence of blocks, each carrying the index, start, end and   *)
(* content written in it; `bad` is the position of a malformed block (0    *)
(* when every block is well formed) and `arrow` tells whether the timing   *)
(* line of that block still has its '-->'.  The language detector          *)
(* (langdetect)                                                            *)
(* and the translation provider (deep_translator.MyMemoryTranslator) are   *)
(* external: every outcome they can produce is a nondeterministic choice.  *)
(* The srt library's parse and compose are modelled by what they do with   *)
(* the arguments the repository passes them (compose is called with its    *)
(* defaults: reindex=True, start_index=1, strict=True).                    *)
(***************************************************************************)
EXTENDS Integers, Sequences, FiniteSets, TLC

\* ------------------------------------------------------------------ bounds
\* the longest input document
MaxRecs == 2

\* ------------------------------------------------------------ input domains
\* index values a block can carry
Indexes == {1, 2}
\* <<start, end>> of a block: two one-unit captions and a zero-length one
\* (srt.parse accepts a block whose start is not before its end)
Timings == {<<0, 1>>, <<1, 2>>, <<1, 1>>}
InTexts == {<<"a">>, <<"b">>}
OutTexts == {<<"x">>, <<"y">>}
Langs == {"ja", "en"}
TargetLangs == {"en", "xx"}
Suffixes == {".srt", ".json", ".jsonl", ".txt"}

\* src/srt_processing.py:166-175 (the members the model's targets can hit)
supported_languages == {"en", "ja", "de", "es", "fr"}

\* Exceptions of deep_translator that translate() catches
CaughtTranslatorErrors == {"NotValidLength", "NotValidPayload", "TranslationNotFound"}
\* Exceptions of the provider call that translate() does not catch
\* (transport failures, rate limiting, server errors)
UncaughtTranslatorErrors == {"RequestError"}

Subtitle(i, s, e, c) == [index |-> i, start |-> s, end |-> e, content |-> c]

Blocks == {Subtitle(i, t[1], t[2], c) : i \in Indexes, t \in Timings, c \in InTexts}

RECURSIVE SeqsUpTo(_, _)
SeqsUpTo(S, n) ==
    IF n = 0 THEN {<<>>}
    ELSE LET shorter == SeqsUpTo(S, n - 1)
         IN  shorter \cup {Append(q, x) : q \in {r \in shorter : Len(r) = n - 1}, x \in S}

\* ---------------------------------------------------------------- srt library
\* Subtitle.__lt__: ordering on (start, end, index)
SubtitleLt(a, b) ==
    \/ a.start < b.start
    \/ a.start = b.start /\ a.end < b.end
    \/ a.start = b.start /\ a.end = b.end /\ a.index < b.index

\* sorted(): stable, uses __lt__ only
RECURSIVE InsertSorted(_, _)
InsertSorted(x, s) ==
    IF s = <<>> THEN <<x>>
    ELSE IF SubtitleLt(x, Head(s)) THEN <<x>> \o s
    ELSE <<Head(s)>> \o InsertSorted(x, Tail(s))

RECURSIVE Sorted(_)
Sorted(s) ==
    IF s = <<>> THEN <<>>
    ELSE InsertSorted(s[Len(s)], Sorted(SubSeq(s, 1, Len(s) - 1)))

IsBlankLine(l) == l = ""
NonBlank(l) == ~IsBlankLine(l)

\* srt._should_skip_sub: no content, or start >= end
ShouldSkip(sub) ==
    \/ SelectSeq(sub.content, NonBlank) = <<>>
    \/ sub.start >= sub.end

\* srt.make_legal_content: blank lines inside the content are removed
MakeLegalContent(c) ==
    IF \E k \in 1..Len(c) : IsBlankLine(c[k]) THEN SelectSeq(c, NonBlank) ELSE c

\* srt.sort_and_reindex(subtitles, start_index=1, skip=True)
RECURSIVE Reindex(_, _)
Reindex(s, next) ==
    IF s = <<>> THEN <<>>
    ELSE IF ShouldSkip(Head(s)) THEN Reindex(Tail(s), next)
    ELSE <<[Head(s) EXCEPT !.index = next]>> \o Reindex(Tail(s), next + 1)

SortAndReindex(subs) == Reindex(Sorted(subs), 1)

\* srt.compose(subtitles): the blocks of the composed text
Compose(subs) ==
    LET r == SortAndReindex(subs)
    IN  [k \in 1..Len(r) |-> [r[k] EXCEPT !.content = MakeLegalContent(r[k].content)]]

\* The lines of a malformed block as they stand in the file, after the blank
\* line that separates it from the block before: index line, timing line, text
RawLines(b) == <<"", "#", "@">> \o b.content

\* srt.parse(text) finds the blocks with the library's block pattern.  The
\* text of a block runs on, across blank lines, until the next pair of lines
\* that looks like an index line followed by a line containing '-->' (or the
\* end of the text).  A malformed block whose timing line has no '-->' is
\* therefore taken as further text of the block before it; text that no
\* block matches (a malformed first block, or a malformed block that still
\* has its '-->') makes the parse raise srt.SRTParseError.
ParseOk(f) == f.bad = 0 \/ (f.bad > 1 /\ ~f.arrow)

\* The records srt.parse yields: one Subtitle per well-formed block, in file
\* order, with the block's own index
SrtParse(f) ==
    IF f.bad = 0 THEN [k \in 1..Len(f.blocks) |-> f.blocks[k]]
    ELSE LET before == SubSeq(f.blocks, 1, f.bad - 2)
             prev == f.blocks[f.bad - 1]
             after == SubSeq(f.blocks, f.bad + 1, Len(f.blocks))
         IN  before
             \o <<[prev EXCEPT !.content = prev.content \o RawLines(f.blocks[f.bad])]>>
             \o after

\* ---------------------------------------------------------------- FileReader
Result(e, t, d) == [err |-> e, type |-> t, data |-> d]

\* FileReader.read without the existence check of line 69
FileReaderRead_NoExistsCheck(f) ==
    IF f.suffix \notin {".srt", ".json", ".jsonl"}
         THEN Result("SubtitleTypeNotRecognized", "", <<>>)
    ELSE IF f.isfile /\ f.size > 0
         THEN IF f.suffix = ".srt"
              THEN IF ParseOk(f) THEN Result("", "SRT", SrtParse(f))
                   ELSE Result("SRTParseError", "", <<>>)
              ELSE Result("", IF f.suffix = ".json" THEN "JSON" ELSE "JSONL", <<>>)
    ELSE Result("FileReadError", "", <<>>)

\* FileReader.read with the checks of lines 69 and 72 in the other order
FileReaderRead_SuffixFirst(f) ==
    IF f.suffix \notin {".srt", ".json", ".jsonl"}
         THEN Result("SubtitleTypeNotRecognized", "", <<>>)
    ELSE IF ~f.exists THEN Result("FileNotFoundError", "", <<>>)
    ELSE IF f.isfile /\ f.size > 0
         THEN IF f.suffix = ".srt"
              THEN IF ParseOk(f) THEN Result("", "SRT", SrtParse(f))
                   ELSE Result("SRTParseError", "", <<>>)
              ELSE Result("", IF f.suffix = ".json" THEN "JSON" ELSE "JSONL", <<>>)
    ELSE Result("FileReadError", "", <<>>)

\* FileReader.read without the getsize test of lines 75, 77 and 88
FileReaderRead_NoSizeCheck(f) ==
    IF ~f.exists THEN Result("FileNotFoundError", "", <<>>)
    ELSE IF f.suffix \notin {".srt", ".json", ".jsonl"}
         THEN Result("SubtitleTypeNotRecognized", "", <<>>)
    ELSE IF f.isfile
         THEN IF f.suffix = ".srt"
              THEN IF ParseOk(f) THEN Result("", "SRT", SrtParse(f))
                   ELSE Result("SRTParseError", "", <<>>)
              ELSE Result("", IF f.suffix = ".json" THEN "JSON" ELSE "JSONL", <<>>)
    ELSE Result("FileReadError", "", <<>>)

\* FileReader.read; the payload of a JSON/JSONL file is opaque raw text that
\* no later step looks into, and is left out (data = <<>>)
FileReaderRead(f) ==
    IF ~f.exists THEN Result("FileNotFoundError", "", <<>>)
    ELSE IF f.suffix \notin {".srt", ".json", ".jsonl"}
         THEN Result("SubtitleTypeNotRecognized", "", <<>>)
    ELSE IF f.isfile /\ f.size > 0
         THEN IF f.suffix = ".srt"
              THEN IF ParseOk(f) THEN Result("", "SRT", SrtParse(f))
                   ELSE Result("SRTParseError", "", <<>>)
              ELSE Result("", IF f.suffix = ".json" THEN "JSON" ELSE "JSONL", <<>>)
    ELSE Result("FileReadError", "", <<>>)

\* The messages of FileReader.read that interpolate self.path
NamesPath(e) == e \in {"FileNotFoundError", "SRTParseError", "FileReadError"}

\* ------------------------------------------------------------------- files
\* An .srt file that exists as a non-empty regular file
SrtFiles ==
    {[exists |-> TRUE, isfile |-> TRUE, size |-> 1, suffix |-> ".srt", blocks |-> b,
      bad |-> k, arrow |-> a] :
        b \in SeqsUpTo(Blocks, MaxRecs), k \in 0..MaxRecs, a \in BOOLEAN}

\* Everything else: missing paths, directories, empty files, other suffixes
OtherFiles ==
    {[exists |-> ex, isfile |-> isf, size |-> sz, suffix |-> sfx, blocks |-> <<>>,
      bad |-> 0, arrow |-> TRUE] :
        ex \in BOOLEAN, isf \in BOOLEAN, sz \in {0, 1}, sfx \in Suffixes}

InputFiles ==
    {f \in SrtFiles : f.bad <= Len(f.blocks) /\ (f.bad = 0 => f.arrow)}
    \cup {f \in OtherFiles : (~f.exists => ~f.isfile /\ f.size = 0) /\ (~f.isfile => f.size = 0)}

\* The output path before the run: absent, or an older file
OutAbsent == [st |-> "absent", blocks |-> <<>>]
OutOld == [st |-> "old", blocks |-> <<>>]

VARIABLES
    inFile,            \* the file at the input path
    outFile,           \* the file at the output path
    source_language,   \* self.source_language
    target_language,   \* self.target_language
    srt_file,          \* self.srt_file: the path, or the record list
    srt_contents,      \* translate(): data["data"]
    content,           \* translate(): the caption texts
    translated_content,\* translate(): the translations so far
    detected,          \* translate(): detected_language ("" before detection)
    calls,             \* the invocations of the translation provider
    pc,                \* position of the script
    err,               \* the exception that ended the script ("" if none)
    err_detail,        \* what the message of that exception carries
    enc,               \* a call of SRTProcessing.detect_encoding
    verif,             \* two runs of the language check on one document
    rd,                \* a call of FileReader.read on a stored .srt file
    draft,             \* a call of SRTProcessing.translate (the draft)
    enumcls            \* a UniqueValueEnum subclass: its definition and its use

vars == <<inFile, outFile, source_language, target_language, srt_file, srt_contents,
          content, translated_content, detected, calls, pc, err, err_detail, enc, verif,
          rd, draft, enumcls>>

\* What an exception message carries: the path of the file, the text of a
\* record, the index of a record (0: none)
Detail(p, t, i) == [path |-> p, text |-> t, index |-> i]
NoDetail == Detail(FALSE, <<>>, 0)

\* No call of detect_encoding / no language check under way
EncIdle == [file |-> "", guess |-> "", pc |-> "idle", result |-> "", err |-> ""]
VerifIdle == [content |-> <<>>, expected |-> "", runs |-> <<>>]
RdIdle == [pc |-> "idle"]
DraftIdle == [pc |-> "idle"]
EnumIdle == [pc |-> "idle"]

\* self.srt_file holds the path given to the constructor
PathValue == [isPath |-> TRUE, subs |-> <<>>]
ListValue(s) == [isPath |-> FALSE, subs |-> s]

Init ==
    /\ inFile \in InputFiles
    /\ outFile \in {OutAbsent, OutOld}
    /\ source_language \in Langs
    /\ target_language \in TargetLangs
    /\ srt_file = PathValue
    /\ srt_contents = <<>>
    /\ content = <<>>
    /\ translated_content = <<>>
    /\ detected = ""
    /\ calls = <<>>
    /\ pc = "start"
    /\ err = ""
    /\ err_detail = NoDetail
    /\ enc = EncIdle
    /\ verif = VerifIdle
    /\ rd = RdIdle
    /\ draft = DraftIdle
    /\ enumcls = EnumIdle

\* The script ends with an uncaught exception e whose message carries d
FailWith(e, d) == pc' = "failed" /\ err' = e /\ err_detail' = d
Fail(e) == FailWith(e, NoDetail)

\* translate(), lines 109-120: read the file and dispatch on its type
Read ==
    /\ pc = "start"
    /\ LET data == FileReaderRead(inFile)
       IN  IF data.err # ""
           THEN /\ FailWith(data.err, Detail(NamesPath(data.err), <<>>, 0))
                /\ UNCHANGED <<srt_contents, content>>
           ELSE IF data.type \in {"JSON", "JSONL"}
           THEN \* prints and falls off the end: translate() returns None
                /\ pc' = "save"
                /\ UNCHANGED <<srt_contents, content, err, err_detail>>
           ELSE IF data.type = "SRT"
           THEN /\ srt_contents' = data.data
                /\ content' = [k \in 1..Len(data.data) |-> data.data[k].content]
                /\ pc' = "detect"
                /\ UNCHANGED <<err, err_detail>>
           ELSE /\ FailWith("TranslationError:CouldNotReadFile", Detail(TRUE, <<>>, 0))
                /\ UNCHANGED <<srt_contents, content>>
    /\ UNCHANGED <<enc, verif, rd, draft, enumcls>>
    /\ UNCHANGED <<inFile, outFile, source_language, target_language, srt_file,
                   translated_content, detected, calls>>

\* The probe string " ".join(content) has no text at all
ProbeIsEmpty(c) == \A k \in 1..Len(c) : SelectSeq(c[k], NonBlank) = <<>>

LanguageDetectionFailed == "TranslationError: Could not detect language."
LanguageMismatch == "TranslationError: Detected language does not match source language."
TranslationFailed == "TranslationError: Could not translate subtitle"

\* Detect with a detector that answers on a probe without any text
Detect_EmptyProbeOk ==
    /\ pc = "detect"
    /\ \/ /\ Fail(LanguageDetectionFailed)
          /\ UNCHANGED detected
       \/ \E d \in Langs :
             /\ detected' = d
             /\ IF d # source_language
                THEN Fail(LanguageMismatch)
                ELSE pc' = "translate" /\ UNCHANGED <<err, err_detail>>
    /\ UNCHANGED <<enc, verif, rd, draft, enumcls>>
    /\ UNCHANGED <<inFile, outFile, source_language, target_language, srt_file,
                   srt_contents, content, translated_content, calls>>

\* Detect without the gate: a mismatch is only logged
Detect_NoGate ==
    /\ pc = "detect"
    /\ \/ /\ Fail(LanguageDetectionFailed)
          /\ UNCHANGED detected
       \/ /\ ~ProbeIsEmpty(content)
          /\ \E d \in Langs :
                /\ detected' = d
                /\ pc' = "translate"
                /\ UNCHANGED <<err, err_detail>>
    /\ UNCHANGED <<enc, verif, rd, draft, enumcls>>
    /\ UNCHANGED <<inFile, outFile, source_language, target_language, srt_file,
                   srt_contents, content, translated_content, calls>>

\* translate(), lines 122-134: detect the language of the joined texts and
\* compare it with the expected source language
Detect ==
    /\ pc = "detect"
    /\ \/ \* langdetect raises LangDetectException (always on an empty probe)
          /\ Fail(LanguageDetectionFailed)
          /\ UNCHANGED detected
       \/ /\ ~ProbeIsEmpty(content)
          /\ \E d \in Langs :
                /\ detected' = d
                /\ IF d # source_language
                   THEN Fail(LanguageMismatch)
                   ELSE pc' = "translate" /\ UNCHANGED <<err, err_detail>>
    /\ UNCHANGED <<enc, verif, rd, draft, enumcls>>
    /\ UNCHANGED <<inFile, outFile, source_language, target_language, srt_file,
                   srt_contents, content, translated_content, calls>>

\* One invocation MyMemoryTranslator(source, target).translate(text): how it
\* ended ("ok" or the exception) and what it returned (<<>> when it raised)
Call(text, outcome, result) ==
    [text |-> text, source |-> source_language, target |-> target_language,
     outcome |-> outcome, result |-> result]

\* TranslateRecord with the message of the older draft
\* (src/subtitle_translation.py:96), which carries nothing of the record
TranslateRecord_PlainMessage ==
    /\ pc = "translate"
    /\ Len(translated_content) < Len(content)
    /\ LET subtitle_content == content[Len(translated_content) + 1]
       IN  \/ \E translated_subtitle \in OutTexts :
                /\ calls' = Append(calls, Call(subtitle_content, "ok", translated_subtitle))
                /\ translated_content' = Append(translated_content, translated_subtitle)
                /\ UNCHANGED <<pc, err, err_detail>>
           \/ \E e \in CaughtTranslatorErrors :
                /\ calls' = Append(calls, Call(subtitle_content, e, <<>>))
                /\ Fail(TranslationFailed)
                /\ UNCHANGED translated_content
           \/ \E e \in UncaughtTranslatorErrors :
                /\ calls' = Append(calls, Call(subtitle_content, e, <<>>))
                /\ Fail(e)
                /\ UNCHANGED translated_content
    /\ UNCHANGED <<enc, verif, rd, draft, enumcls>>
    /\ UNCHANGED <<inFile, outFile, source_language, target_language, srt_file,
                   srt_contents, content, detected>>

\* TranslateRecord that keeps the original text of a record the provider
\* rejected and goes on with the next record
TranslateRecord_BestEffort ==
    /\ pc = "translate"
    /\ Len(translated_content) < Len(content)
    /\ LET subtitle_content == content[Len(translated_content) + 1]
       IN  \/ \E translated_subtitle \in OutTexts :
                /\ calls' = Append(calls, Call(subtitle_content, "ok", translated_subtitle))
                /\ translated_content' = Append(translated_content, translated_subtitle)
                /\ UNCHANGED <<pc, err, err_detail>>
           \/ \E e \in CaughtTranslatorErrors \cup UncaughtTranslatorErrors :
                /\ calls' = Append(calls, Call(subtitle_content, e, <<>>))
                /\ translated_content' = Append(translated_content, subtitle_content)
                /\ UNCHANGED <<pc, err, err_detail>>
    /\ UNCHANGED <<enc, verif, rd, draft, enumcls>>
    /\ UNCHANGED <<inFile, outFile, source_language, target_language, srt_file,
                   srt_contents, content, detected>>

\* TranslateRecord that raises only after the loop has gone through every
\* record: a rejected record gets an empty translation and the loop goes on
TranslateRecord_SkipRecord ==
    /\ pc = "translate"
    /\ Len(translated_content) < Len(content)
    /\ LET subtitle_content == content[Len(translated_content) + 1]
       IN  \/ \E translated_subtitle \in OutTexts :
                /\ calls' = Append(calls, Call(subtitle_content, "ok", translated_subtitle))
                /\ translated_content' = Append(translated_content, translated_subtitle)
                /\ UNCHANGED <<pc, err, err_detail>>
           \/ \E e \in CaughtTranslatorErrors :
                /\ calls' = Append(calls, Call(subtitle_content, e, <<>>))
                /\ translated_content' = Append(translated_content, <<>>)
                /\ IF Len(translated_content) + 1 = Len(content)
                   THEN Fail(TranslationFailed)
                   ELSE UNCHANGED <<pc, err, err_detail>>
           \/ \E e \in UncaughtTranslatorErrors :
                /\ calls' = Append(calls, Call(subtitle_content, e, <<>>))
                /\ Fail(e)
                /\ UNCHANGED translated_content
    /\ UNCHANGED <<enc, verif, rd, draft, enumcls>>
    /\ UNCHANGED <<inFile, outFile, source_language, target_language, srt_file,
                   srt_contents, content, detected>>

\* TranslateRecord that writes each translation into its record as soon as
\* the provider has returned it
TranslateRecord_InPlace ==
    /\ pc = "translate"
    /\ Len(translated_content) < Len(content)
    /\ LET k == Len(translated_content) + 1
           subtitle_content == content[k]
       IN  \/ \E translated_subtitle \in OutTexts :
                /\ calls' = Append(calls, Call(subtitle_content, "ok", translated_subtitle))
                /\ translated_content' = Append(translated_content, translated_subtitle)
                /\ srt_contents' = [srt_contents EXCEPT ![k].content = translated_subtitle]
                /\ UNCHANGED <<pc, err, err_detail>>
           \/ \E e \in CaughtTranslatorErrors :
                /\ calls' = Append(calls, Call(subtitle_content, e, <<>>))
                /\ FailWith(TranslationFailed, Detail(FALSE, subtitle_content, 0))
                /\ UNCHANGED <<translated_content, srt_contents>>
           \/ \E e \in UncaughtTranslatorErrors :
                /\ calls' = Append(calls, Call(subtitle_content, e, <<>>))
                /\ Fail(e)
                /\ UNCHANGED <<translated_content, srt_contents>>
    /\ UNCHANGED <<enc, verif, rd, draft, enumcls>>
    /\ UNCHANGED <<inFile, outFile, source_language, target_language, srt_file,
                   content, detected>>

\* TranslateRecord that submits a rejected text once more before it gives
\* up on the record
TranslateRecord_Retry ==
    /\ pc = "translate"
    /\ Len(translated_content) < Len(content)
    /\ LET subtitle_content == content[Len(translated_content) + 1]
           retried == Len(calls) > 0 /\ calls[Len(calls)].outcome # "ok"
       IN  \/ \E translated_subtitle \in OutTexts :
                /\ calls' = Append(calls, Call(subtitle_content, "ok", translated_subtitle))
                /\ translated_content' = Append(translated_content, translated_subtitle)
                /\ UNCHANGED <<pc, err, err_detail>>
           \/ \E e \in CaughtTranslatorErrors :
                /\ calls' = Append(calls, Call(subtitle_content, e, <<>>))
                /\ IF retried
                   THEN FailWith(TranslationFailed, Detail(FALSE, subtitle_content, 0))
                   ELSE UNCHANGED <<pc, err, err_detail>>
                /\ UNCHANGED translated_content
           \/ \E e \in UncaughtTranslatorErrors :
                /\ calls' = Append(calls, Call(subtitle_content, e, <<>>))
                /\ Fail(e)
                /\ UNCHANGED translated_content
    /\ UNCHANGED <<enc, verif, rd, draft, enumcls>>
    /\ UNCHANGED <<inFile, outFile, source_language, target_language, srt_file,
                   srt_contents, content, detected>>

\* translate(), lines 136-150: one iteration of the translation loop
TranslateRecord ==
    /\ pc = "translate"
    /\ Len(translated_content) < Len(content)
    /\ LET subtitle_content == content[Len(translated_content) + 1]
       IN  \/ \E translated_subtitle \in OutTexts :
                /\ calls' = Append(calls, Call(subtitle_content, "ok", translated_subtitle))
                /\ translated_content' = Append(translated_content, translated_subtitle)
                /\ UNCHANGED <<pc, err, err_detail>>
           \/ \E e \in CaughtTranslatorErrors :
                /\ calls' = Append(calls, Call(subtitle_content, e, <<>>))
                /\ FailWith(TranslationFailed, Detail(FALSE, subtitle_content, 0))
                /\ UNCHANGED translated_content
           \/ \E e \in UncaughtTranslatorErrors :
                /\ calls' = Append(calls, Call(subtitle_content, e, <<>>))
                /\ Fail(e)
                /\ UNCHANGED translated_content
    /\ UNCHANGED <<enc, verif, rd, draft, enumcls>>
    /\ UNCHANGED <<inFile, outFile, source_language, target_language, srt_file,
                   srt_contents, content, detected>>

\* Replace that renumbers the records by position
Replace_Renumber ==
    /\ pc = "translate"
    /\ Len(translated_content) = Len(content)
    /\ srt_contents' = [i \in 1..Len(srt_contents) |->
                          [srt_contents[i] EXCEPT !.content = translated_content[i],
                                                  !.index = i]]
    /\ srt_file' = ListValue(srt_contents')
    /\ pc' = "save"
    /\ UNCHANGED <<enc, verif, rd, draft, enumcls>>
    /\ UNCHANGED <<inFile, outFile, source_language, target_language, content,
                   translated_content, detected, calls, err,
                   err_detail>>

\* Replace that pairs record i with the translation of another record
Replace_Reversed ==
    /\ pc = "translate"
    /\ Len(translated_content) = Len(content)
    /\ srt_contents' = [i \in 1..Len(srt_contents) |->
                          [srt_contents[i] EXCEPT !.content =
                              translated_content[Len(translated_content) + 1 - i]]]
    /\ srt_file' = ListValue(srt_contents')
    /\ pc' = "save"
    /\ UNCHANGED <<enc, verif, rd, draft, enumcls>>
    /\ UNCHANGED <<inFile, outFile, source_language, target_language, content,
                   translated_content, detected, calls, err,
                   err_detail>>

\* translate(), lines 152-155: put the translations into the records and
\* keep the record list in self.srt_file
Replace ==
    /\ pc = "translate"
    /\ Len(translated_content) = Len(content)
    /\ srt_contents' = [i \in 1..Len(srt_contents) |->
                          [srt_contents[i] EXCEPT !.content = translated_content[i]]]
    /\ srt_file' = ListValue(srt_contents')
    /\ pc' = "save"
    /\ UNCHANGED <<enc, verif, rd, draft, enumcls>>
    /\ UNCHANGED <<inFile, outFile, source_language, target_language, content,
                   translated_content, detected, calls, err,
                   err_detail>>

\* save(), line 170 with open_file lines 65-69: open the output path for
\* writing.  A failing open leaves `file` unbound, so the finally clause of
\* open_file raises UnboundLocalError in place of the OSError.
SaveOpen ==
    /\ pc = "save"
    /\ \/ /\ outFile' = [st |-> "truncated", blocks |-> <<>>]
          /\ pc' = "save_write"
          /\ UNCHANGED <<err, err_detail>>
       \/ /\ Fail("UnboundLocalError")
          /\ UNCHANGED outFile
    /\ UNCHANGED <<enc, verif, rd, draft, enumcls>>
    /\ UNCHANGED <<inFile, source_language, target_language, srt_file, srt_contents,
                   content, translated_content, detected, calls>>

\* save(), lines 171-174: compose the held value and write it.  srt.compose
\* of the path string raises AttributeError (a str has no .content).
SaveWrite ==
    /\ pc = "save_write"
    /\ IF srt_file.isPath
       THEN /\ Fail("AttributeError")
            /\ UNCHANGED outFile
       ELSE \/ /\ outFile' = [st |-> "written", blocks |-> Compose(srt_file.subs)]
               /\ pc' = "done"
               /\ UNCHANGED <<err, err_detail>>
            \/ \* file.write raises OSError: re-raised as IOError
               /\ Fail("IOError: Could not save file.")
               /\ UNCHANGED outFile
    /\ UNCHANGED <<enc, verif, rd, draft, enumcls>>
    /\ UNCHANGED <<inFile, source_language, target_language, srt_file, srt_contents,
                   content, translated_content, detected, calls>>

Next ==
    \/ Read
    \/ Detect
    \/ TranslateRecord
    \/ Replace
    \/ SaveOpen
    \/ SaveWrite

Spec == Init /\ [][Next]_vars

\* The pipeline script is not running
PipelineIdle ==
    /\ inFile = [exists |-> FALSE, isfile |-> FALSE, size |-> 0, suffix |-> ".srt",
                 blocks |-> <<>>, bad |-> 0, arrow |-> TRUE]
    /\ outFile = OutAbsent
    /\ source_language = "ja"
    /\ target_language = "en"
    /\ srt_file = PathValue
    /\ srt_contents = <<>>
    /\ content = <<>>
    /\ translated_content = <<>>
    /\ detected = ""
    /\ calls = <<>>
    /\ pc = "idle"
    /\ err = ""
    /\ err_detail = NoDetail

PipelineVars ==
    <<inFile, outFile, source_language, target_language, srt_file, srt_contents,
      content, translated_content, detected, calls, pc, err, err_detail>>

\* ------------------------------------------ SRTProcessing.detect_encoding
\* src/srt_processing.py:21-22
SUPPORTED_ENCODINGS ==
    {"utf-8", "UTF-8-SIG", "ascii", "iso-8859-1", "utf-16", "utf-16-le", "utf-16-be",
     "cp1252", "cp850", "cp437"}

\* What chardet.detect(raw_data)['encoding'] can be: None (written ""), or a
\* name; chardet spells its names its own way ('ISO-8859-1', 'UTF-16', ...)
Guesses ==
    SUPPORTED_ENCODINGS \cup
    {"", "ISO-8859-1", "UTF-16", "Windows-1252", "windows-1251", "SHIFT_JIS", "EUC-JP",
     "GB2312", "Big5", "MacCyrillic", "KOI8-R"}

\* The file at self.srt_file: absent, present but not openable for reading
\* (a directory, no permission), or readable
EncFileKinds == {"missing", "unreadable", "ok"}

EncResult(r, e) == [result |-> r, err |-> e]

\* SRTProcessing.detect_encoding, src/srt_processing.py:63-80.  The
\* UnicodeDecodeError raised at line 68 is raised inside the try block, whose
\* first handler (line 76) turns it into FileNotFoundError; with a guess of
\* None the constructor call itself raises TypeError (its first argument
\* must be a str), which no handler catches.
detect_encoding(file, guess) ==
    IF file = "missing" THEN EncResult("", "FileNotFoundError")
    ELSE IF file = "unreadable" THEN EncResult("", "IOError")
    ELSE IF guess = "" THEN EncResult("", "TypeError")
    ELSE IF guess \notin SUPPORTED_ENCODINGS THEN EncResult("", "FileNotFoundError")
    ELSE EncResult(guess, "")

InitEncoding ==
    /\ PipelineIdle
    /\ verif = VerifIdle
    /\ rd = RdIdle /\ draft = DraftIdle /\ enumcls = EnumIdle
    /\ enc \in {[file |-> k, guess |-> g, pc |-> "start", result |-> "", err |-> ""] :
                  k \in EncFileKinds, g \in Guesses}

DetectEncodingCall ==
    /\ enc.pc = "start"
    /\ LET r == detect_encoding(enc.file, enc.guess)
       IN  enc' = [enc EXCEPT !.pc = "done", !.result = r.result, !.err = r.err]
    /\ UNCHANGED <<verif, rd, draft, enumcls>>
    /\ UNCHANGED PipelineVars

NextEncoding == DetectEncodingCall

SpecEncoding == InitEncoding /\ [][NextEncoding]_vars

\* ------------------------------------------- two runs of the language check
\* DetectorFactory.seed as the pipeline module leaves it: never assigned
\* (only the drafts src/subtitles.py:42 and src/t.py:29 set it to 0)
DetectorFactory_seed == "None"

\* The seeds a detector can start from when DetectorFactory.seed is None
EntropySeeds == {"s0", "s1", "s2"}

DetectorSeeds ==
    IF DetectorFactory_seed = "None" THEN EntropySeeds ELSE {DetectorFactory_seed}

\* langdetect.detect on a probe whose language probabilities are close: the
\* answer depends on the random sampling, that is on the seed
LangDetect(c, seed) == IF seed = "s0" THEN "ja" ELSE "en"

VerifyOutcome(seed, d, r) == [seed |-> seed, detected |-> d, result |-> r]

InitVerify ==
    /\ PipelineIdle
    /\ enc = EncIdle
    /\ rd = RdIdle /\ draft = DraftIdle /\ enumcls = EnumIdle
    /\ verif \in {[content |-> c, expected |-> l, runs |-> <<>>] :
                    c \in SeqsUpTo(InTexts, MaxRecs), l \in Langs}

\* One run of translate(), lines 122-134, on the document
VerifyRun ==
    /\ Len(verif.runs) < 2
    /\ IF ProbeIsEmpty(verif.content)
       THEN verif' = [verif EXCEPT !.runs =
                        Append(@, VerifyOutcome("", "", LanguageDetectionFailed))]
       ELSE \E seed \in DetectorSeeds :
               LET d == LangDetect(verif.content, seed)
               IN  verif' = [verif EXCEPT !.runs =
                       Append(@, VerifyOutcome(seed, d,
                           IF d # verif.expected THEN LanguageMismatch ELSE "pass"))]
    /\ UNCHANGED <<enc, rd, draft, enumcls>>
    /\ UNCHANGED PipelineVars

NextVerify == VerifyRun

SpecVerify == InitVerify /\ [][NextVerify]_vars

\* ------------------------------------------- UniqueValueEnum, SubtitleType
\* Interpreter stack depth at which a chain of nested calls is cut off
RecursionLimit == 3

\* The constants of SubtitleType, src/subtitletype.py:35-38: names by
\* position, and the values given to them
MemberNames == <<"SRT", "JSON", "JSONL", "UNKNOWN">>
SubtitleTypeBody == <<"srt", "json", "jsonl", "unknown">>
EnumValues == {SubtitleTypeBody[k] : k \in 1..Len(SubtitleTypeBody)}

\* Bodies of UniqueValueEnum subclasses: constant k is named MemberNames[k]
\* and is given any of the values; SubtitleTypeBody is one of them
ClassBodies == SeqsUpTo(EnumValues, Len(MemberNames))

\* Strings handed to is_valid, values handed to the class for a lookup
TypeStrings == EnumValues \cup {"SRT", "JSON", "JSONL", "UNKNOWN", "invalid", "vtt"}
LookupValues == EnumValues \cup {"vtt"}

ValuesOf(m) == {m[k] : k \in 1..Len(m)}

\* cls.__members__: the mapping from constant names to members
MemberKeys(m) == {MemberNames[k] : k \in 1..Len(m)}

\* SubtitleType.is_valid, src/subtitletype.py:57
is_valid(m, subtitle_type) == subtitle_type \in MemberKeys(m)

InitEnum ==
    /\ PipelineIdle
    /\ enc = EncIdle /\ verif = VerifIdle /\ rd = RdIdle /\ draft = DraftIdle
    /\ enumcls \in {[pc |-> "defining", body |-> b, members |-> <<>>, err |-> "",
                     query |-> "", answer |-> FALSE, depth |-> 0] : b \in ClassBodies}

\* DefineMember whose __init__ makes no comparison with the members created
\* so far
DefineMember_NoCheck ==
    /\ enumcls.pc = "defining"
    /\ Len(enumcls.members) < Len(enumcls.body)
    /\ LET value == enumcls.body[Len(enumcls.members) + 1]
       IN  enumcls' = [enumcls EXCEPT !.members = Append(@, value)]
    /\ UNCHANGED <<enc, verif, rd, draft>>
    /\ UNCHANGED PipelineVars

\* The enum machinery creating the next constant of the class body:
\* __new__ (lines 66-71) makes the object and sets its value, __init__
\* (lines 58-64) compares it with the members created so far
DefineMember ==
    /\ enumcls.pc = "defining"
    /\ Len(enumcls.members) < Len(enumcls.body)
    /\ LET value == enumcls.body[Len(enumcls.members) + 1]
       IN  IF value \in ValuesOf(enumcls.members)
           THEN enumcls' = [enumcls EXCEPT !.pc = "failed",
                                           !.err = "InvalidEnumValueError"]
           ELSE enumcls' = [enumcls EXCEPT !.members = Append(@, value)]
    /\ UNCHANGED <<enc, verif, rd, draft>>
    /\ UNCHANGED PipelineVars

\* The class statement completes once every constant has been created
FinishClass ==
    /\ enumcls.pc = "defining"
    /\ Len(enumcls.members) = Len(enumcls.body)
    /\ enumcls' = [enumcls EXCEPT !.pc = "ready"]
    /\ UNCHANGED <<enc, verif, rd, draft>>
    /\ UNCHANGED PipelineVars

\* A call cls.is_valid(subtitle_type)
IsValidCall ==
    /\ enumcls.pc = "ready"
    /\ \E subtitle_type \in TypeStrings :
          enumcls' = [enumcls EXCEPT !.pc = "answered", !.query = subtitle_type,
                                     !.answer = is_valid(enumcls.members, subtitle_type)]
    /\ UNCHANGED <<enc, verif, rd, draft>>
    /\ UNCHANGED PipelineVars

\* A lookup cls(value): a member with that value is returned, otherwise the
\* enum machinery calls cls._missing_(value)
Lookup ==
    /\ enumcls.pc = "ready"
    /\ \E value \in LookupValues :
          IF value \in ValuesOf(enumcls.members)
          THEN enumcls' = [enumcls EXCEPT !.pc = "found", !.query = value]
          ELSE enumcls' = [enumcls EXCEPT !.pc = "missing", !.query = value, !.depth = 1]
    /\ UNCHANGED <<enc, verif, rd, draft>>
    /\ UNCHANGED PipelineVars

\* _missing_, lines 73-77: no member has the value (that is why _missing_
\* was called), so line 77 looks the same value up again, which calls
\* _missing_ again; the interpreter ends the chain with RecursionError
Missing ==
    /\ enumcls.pc = "missing"
    /\ IF enumcls.query \in ValuesOf(enumcls.members)
       THEN enumcls' = [enumcls EXCEPT !.pc = "failed_lookup",
                                       !.err = "InvalidEnumValueError"]
       ELSE IF enumcls.depth < RecursionLimit
            THEN enumcls' = [enumcls EXCEPT !.depth = @ + 1]
            ELSE enumcls' = [enumcls EXCEPT !.pc = "failed_lookup",
                                            !.err = "RecursionError"]
    /\ UNCHANGED <<enc, verif, rd, draft>>
    /\ UNCHANGED PipelineVars

NextEnum ==
    \/ DefineMember
    \/ FinishClass
    \/ IsValidCall
    \/ Lookup
    \/ Missing

SpecEnum == InitEnum /\ [][NextEnum]_vars

\* ----------------------------------------- SRTProcessing.translate (draft)
\* What detect(sub.content) gives for one record: a language, or "?" when
\* it raises LangDetectException
RecordLangs == Langs \cup {"?"}

\* The records srt.parse returned at line 110, each with the language the
\* detector finds for its text alone
DraftBlocks ==
    {[index |-> i, start |-> t[1], end |-> t[2], content |-> c, lang |-> l] :
        i \in Indexes, t \in {<<0, 1>>, <<1, 2>>}, c \in InTexts, l \in RecordLangs}

\* The error every handler of the draft raises (lines 129-131, 135-137)
DraftError == "TranslationError: An error occurred while translating the subtitles."

\* The value SubtitleTranslation.translate of src/subtitle_translation.py
\* returns at line 104: the list of all records, not a text
WholeDocument == "list of Subtitle"

\* srt.compose at line 148: with no record it gives the empty text; a record
\* whose content is a list has no .strip(), so compose raises
ComposeDraft(translated_subs) ==
    IF translated_subs = <<>> THEN [err |-> "", out |-> <<>>]
    ELSE [err |-> "AttributeError", out |-> <<>>]

InitDraft ==
    /\ PipelineIdle
    /\ enc = EncIdle /\ verif = VerifIdle /\ rd = RdIdle /\ enumcls = EnumIdle
    /\ draft \in {[pc |-> "loop", subs |-> d, source |-> l, docLang |-> dl, i |-> 1,
                   held |-> "path", translated_subs |-> <<>>, calls |-> <<>>,
                   err |-> "", cause |-> "", out |-> <<>>] :
                    d \in SeqsUpTo(DraftBlocks, MaxRecs), l \in Langs, dl \in Langs}

DraftFail(e, c) == draft' = [draft EXCEPT !.pc = "failed", !.err = e, !.cause = c]

\* Positions 1..k of the document, the records a whole-file translation
\* submits to the provider one after the other
Submitted(k) == [j \in 1..k |-> j]

\* sub_trans.translate() at line 133, src/subtitle_translation.py:62-106:
\* reads the file it holds, checks the language of all texts together,
\* submits every record of the file, and from then on holds the record list
\* in place of the path, which a later call cannot read
WholeFileTranslate(sub) ==
    IF draft.held = "list" THEN DraftFail(DraftError, "TypeError")
    ELSE IF draft.docLang # draft.source THEN DraftFail(DraftError, LanguageMismatch)
    ELSE \/ draft' = [draft EXCEPT
                        !.calls = @ \o Submitted(Len(draft.subs)),
                        !.held = "list",
                        !.translated_subs =
                            Append(@, Subtitle(sub.index, sub.start, sub.end, WholeDocument)),
                        !.i = @ + 1]
         \/ \E k \in 1..Len(draft.subs) : \E e \in CaughtTranslatorErrors :
                draft' = [draft EXCEPT !.calls = @ \o Submitted(k), !.pc = "failed",
                                       !.err = DraftError, !.cause = e]

\* translate(), lines 123-147: one iteration of the loop over the records
DraftRecord ==
    /\ draft.pc = "loop"
    /\ draft.i <= Len(draft.subs)
    /\ LET sub == draft.subs[draft.i]
       IN  IF sub.lang = "?" THEN DraftFail(DraftError, "LangDetectException")
           ELSE IF sub.lang # draft.source THEN draft' = [draft EXCEPT !.i = @ + 1]
           ELSE WholeFileTranslate(sub)
    /\ UNCHANGED <<enc, verif, rd, enumcls>>
    /\ UNCHANGED PipelineVars

\* translate(), line 148: compose what the loop collected
DraftCompose ==
    /\ draft.pc = "loop"
    /\ draft.i > Len(draft.subs)
    /\ LET r == ComposeDraft(draft.translated_subs)
       IN  IF r.err = "" THEN draft' = [draft EXCEPT !.pc = "done", !.out = r.out]
           ELSE DraftFail(r.err, r.err)
    /\ UNCHANGED <<enc, verif, rd, enumcls>>
    /\ UNCHANGED PipelineVars

NextDraft ==
    \/ DraftRecord
    \/ DraftCompose

SpecDraft == InitDraft /\ [][NextDraft]_vars

\* --------------------------------- FileReader.read on files as stored
\* What the text of a file is made of: ASCII characters only, or also
\* letters with diacritics
TextKinds == {"ascii", "accented"}

\* The encodings a file's bytes can be stored in, with the texts each can hold
StoredTexts ==
    {p \in SUPPORTED_ENCODINGS \X TextKinds : ~(p[1] = "ascii" /\ p[2] = "accented")}

\* open(self.path, "r", encoding="utf-8") and file.read(), lines 78 and 82,
\* on bytes stored in encoding `stored`: the text comes out as it was written
\* ("same"), with a leading U+FEFF ("bom"), with a NUL beside every character
\* ("garbled"), or the read raises UnicodeDecodeError ("error")
Utf8Decode(stored, kind) ==
    IF stored \in {"utf-8", "ascii"} THEN "same"
    ELSE IF stored = "UTF-8-SIG" THEN "bom"
    ELSE IF stored \in {"iso-8859-1", "cp1252", "cp850", "cp437"}
         THEN IF kind = "ascii" THEN "same" ELSE "error"
    ELSE IF stored = "utf-16" THEN "error"
    ELSE IF kind = "ascii" THEN "garbled" ELSE "error"

\* FileReader.read, lines 76-85, on a non-empty regular .srt file given as
\* stored bytes.  UnicodeDecodeError is not srt.SRTParseError, so the handler
\* at line 84 lets it through.  Whether srt.parse accepts a leading U+FEFF
\* depends on the version of the srt package (bomTolerant).
FileReaderReadStored(f, stored, kind, bomTolerant) ==
    LET text == Utf8Decode(stored, kind)
    IN  IF text = "error" THEN Result("UnicodeDecodeError", "", <<>>)
        ELSE IF text = "garbled" \/ (text = "bom" /\ ~bomTolerant)
             THEN Result("SRTParseError", "", <<>>)
        ELSE FileReaderRead(f)

\* Well-formed .srt files with at least one block
WellFormedFiles == {f \in SrtFiles : f.bad = 0 /\ f.arrow /\ f.blocks # <<>>}

InitRead ==
    /\ PipelineIdle
    /\ enc = EncIdle /\ verif = VerifIdle /\ draft = DraftIdle /\ enumcls = EnumIdle
    /\ rd \in {[pc |-> "start", file |-> f, stored |-> p[1], kind |-> p[2],
                bomTolerant |-> b, result |-> Result("", "", <<>>)] :
                 f \in WellFormedFiles, p \in StoredTexts, b \in BOOLEAN}

ReadStored ==
    /\ rd.pc = "start"
    /\ rd' = [rd EXCEPT !.pc = "done",
                        !.result = FileReaderReadStored(rd.file, rd.stored, rd.kind,
                                                        rd.bomTolerant)]
    /\ UNCHANGED <<enc, verif, draft, enumcls>>
    /\ UNCHANGED PipelineVars

NextRead == ReadStored

SpecRead == InitRead /\ [][NextRead]_vars

\* ------------------------------------------------------------- vocabulary
\* The output path is as it was before the run
OutputUntouched == outFile \in {OutAbsent, OutOld}

\* The input is an .srt file that FileReader.read parses into records
IsSrtInput == FileReaderRead(inFile).type = "SRT"

\* The input is an existing non-empty regular .json / .jsonl file
IsJsonInput ==
    /\ inFile.exists /\ inFile.isfile /\ inFile.size > 0
    /\ inFile.suffix \in {".json", ".jsonl"}

IndexSeq(s) == [k \in 1..Len(s) |-> s[k].index]

\* The index values of the well-formed blocks of a file, in file order
FileIndexSeq(f) ==
    IndexSeq(SubSeq(f.blocks, 1, f.bad - 1)) \o
    IndexSeq(SubSeq(f.blocks, f.bad + 1, Len(f.blocks)))

\* translate() has returned normally with a record list
TranslateSucceeded == ~srt_file.isPath

\* ---------------------------------------------------------------- claims

\* C1 Gate enforcement: when the language detected on the joined caption
\* texts differs from the expected source language, the run has failed with
\* the language-mismatch error, the translation provider has been invoked
\* zero times, and every record still has the text read from the file.
C1_GateEnforcement ==
    (detected # "" /\ detected # source_language) =>
        /\ pc = "failed"
        /\ err = LanguageMismatch
        /\ calls = <<>>
        /\ srt_contents = SrtParse(inFile)
        /\ srt_file = PathValue

C1_Witness ==
    /\ detected # "" /\ detected # source_language
    /\ pc = "failed"
    /\ Len(srt_contents) >= 2

\* C2 Atomic failure: once the translation of some record has failed, the
\* output file is never created, truncated or written (in particular not at
\* the end of the run).
C2_AtomicFailure ==
    (\E k \in 1..Len(calls) : calls[k].outcome # "ok") => OutputUntouched

C2_Witness ==
    /\ Len(calls) = 2
    /\ calls[1].outcome = "ok"
    /\ calls[2].outcome = "TranslationNotFound"
    /\ pc = "failed"
    /\ outFile = OutOld

\* A valid timed-caption document: positive pairwise distinct index values,
\* start before end and a text in every record
ValidDocument(d) ==
    /\ \A i \in 1..Len(d) :
          /\ d[i].index >= 1
          /\ d[i].start < d[i].end
          /\ SelectSeq(d[i].content, NonBlank) # <<>>
    /\ \A i, j \in 1..Len(d) : d[i].index = d[j].index => i = j

\* The file save() left at the output path, as FileReader.read sees it
WrittenFile ==
    [exists |-> TRUE, isfile |-> TRUE,
     size |-> IF outFile.blocks = <<>> THEN 0 ELSE 1,
     suffix |-> ".srt", blocks |-> outFile.blocks, bad |-> 0, arrow |-> TRUE]

SameRecords(a, b) ==
    /\ Len(a) = Len(b)
    /\ \A i \in 1..Len(a) :
          /\ a[i].index = b[i].index
          /\ a[i].start = b[i].start
          /\ a[i].end = b[i].end
          /\ a[i].content = b[i].content

\* C3 Round trip: once save has written a valid document D, reading the
\* written file back with FileReader.read succeeds and yields records equal
\* to D's on index, start, end and text, record for record.
C3_RoundTrip ==
    (pc = "done" /\ ValidDocument(srt_file.subs)) =>
        LET back == FileReaderRead(WrittenFile)
        IN  back.err = "" /\ SameRecords(back.data, srt_file.subs)

\* C4 Order preservation: the index values of the records FileReader.read
\* returned are those of the file's blocks in file order, and after a
\* successful translate the held records still carry that same sequence.
C4_OrderPreserved ==
    (IsSrtInput /\ pc # "start") =>
        /\ IndexSeq(srt_contents) = FileIndexSeq(inFile)
        /\ TranslateSucceeded => IndexSeq(srt_file.subs) = FileIndexSeq(inFile)

C4_Witness ==
    /\ TranslateSucceeded
    /\ Len(srt_file.subs) >= 2
    /\ srt_file.subs[1].index > srt_file.subs[2].index

\* C5 When translate succeeds on an N-record document, record i holds the
\* result the provider returned for the original text of record i, and the
\* start and end read from the file.
C5_TextsReplacedInPlace ==
    TranslateSucceeded =>
        /\ Len(srt_file.subs) = Len(SrtParse(inFile))
        /\ Len(calls) = Len(SrtParse(inFile))
        /\ \A i \in 1..Len(SrtParse(inFile)) :
              /\ calls[i].text = SrtParse(inFile)[i].content
              /\ calls[i].outcome = "ok"
              /\ srt_file.subs[i].content = calls[i].result
              /\ srt_file.subs[i].start = SrtParse(inFile)[i].start
              /\ srt_file.subs[i].end = SrtParse(inFile)[i].end

C5_Witness ==
    /\ TranslateSucceeded
    /\ Len(srt_file.subs) >= 2
    /\ inFile.blocks[1].content # inFile.blocks[2].content
    /\ srt_file.subs[1].content # srt_file.subs[2].content
    /\ inFile.blocks[1].start # inFile.blocks[2].start

\* C6 Fail-fast on unsupported target: with a target language outside the
\* supported list, translate on a timed-caption document never reaches the
\* translation loop, never returns normally and makes no provider call.
C6_UnsupportedTargetFailsFast ==
    (target_language \notin supported_languages /\ IsSrtInput) =>
        /\ calls = <<>>
        /\ pc \notin {"translate", "save", "save_write", "done"}

\* C7 For an existing non-empty .json / .jsonl file, FileReader.read
\* classifies it as JSON resp. JSONL, and translate fails (it does not
\* return normally, leaving the script to go on to save).
C7_JsonRejected ==
    IsJsonInput =>
        /\ FileReaderRead(inFile).err = ""
        /\ FileReaderRead(inFile).type = (IF inFile.suffix = ".json" THEN "JSON" ELSE "JSONL")
        /\ pc # "start" => (pc = "failed" /\ outFile \in {OutAbsent, OutOld})

\* C8 Whenever save has opened or written the output file, self.srt_file
\* holds a record list in which every record carries its translated text.
C8_SaveOnlyTranslated ==
    (pc = "save_write" \/ ~OutputUntouched) =>
        /\ ~srt_file.isPath
        /\ Len(translated_content) = Len(srt_file.subs)
        /\ \A i \in 1..Len(srt_file.subs) :
              srt_file.subs[i].content = translated_content[i]

\* The orchestrator's state, read off the position of the script
Stage ==
    CASE pc = "start" -> "Unread"
      [] pc = "detect" -> "Parsed"
      [] pc = "translate" -> "Verified"
      [] pc \in {"save", "save_write"} ->
            IF TranslateSucceeded THEN "Translated" ELSE "Parsed"
      [] pc = "done" -> "Written"
      [] OTHER -> "Failed"

StageEdges ==
    {<<"Unread", "Parsed">>, <<"Parsed", "Verified">>, <<"Verified", "Translated">>,
     <<"Translated", "Written">>}

StageStep ==
    /\ Stage # "Failed"
    /\ \/ Stage' = Stage
       \/ Stage' = "Failed"
       \/ <<Stage, Stage'>> \in StageEdges
    /\ calls' # calls => Stage = "Verified"
    /\ (outFile' # outFile \/ (pc = "save" /\ pc' # "save")) => Stage = "Translated"

\* C9 The run goes through Unread, Parsed, Verified, Translated, Written in
\* that order without skipping one; the provider is called only in Verified
\* and save runs only in Translated; Failed is terminal.
C9_StageOrder == [][StageStep]_vars

\* C10 Abort on first failure: when the provider reports payload-too-long,
\* invalid-payload or no-translation-found for record k, that call is the
\* last one, it was made for record k (no earlier record was skipped),
\* translate has raised the translation-failed error, and record k got no
\* substitute translation.
C10_AbortOnFirstFailure ==
    \A k \in 1..Len(calls) :
        calls[k].outcome \in CaughtTranslatorErrors =>
            /\ k = Len(calls)
            /\ pc = "failed"
            /\ err = TranslationFailed
            /\ calls[k].text = content[k]
            /\ Len(translated_content) = k - 1

C10_Witness ==
    /\ Len(calls) = 1
    /\ calls[1].outcome \in CaughtTranslatorErrors
    /\ Len(content) >= 2
    /\ pc = "failed"

RecognizedSuffixes == {".srt", ".json", ".jsonl"}

\* C11 (as claimed) FileReader.read fails with the file-not-found error
\* whenever the path is not an existing regular file, a directory included.
C11_NotRegularFileIsNotFound ==
    (pc # "start" /\ ~(inFile.exists /\ inFile.isfile)) =>
        (pc = "failed" /\ err = "FileNotFoundError")

\* C11 (amended) FileReader.read fails with the file-not-found error exactly
\* when the path does not exist; a path that exists but is not a regular
\* file fails with the unrecognized-format error when its suffix is not
\* recognized and with FileReadError otherwise.
C11_MissingPathIsNotFound ==
    pc # "start" =>
        /\ err = "FileNotFoundError" <=> ~inFile.exists
        /\ ~inFile.exists => pc = "failed"
        /\ (inFile.exists /\ ~inFile.isfile) =>
              /\ pc = "failed"
              /\ err = (IF inFile.suffix \in RecognizedSuffixes
                        THEN "FileReadError" ELSE "SubtitleTypeNotRecognized")

C11_Witness ==
    /\ pc = "failed"
    /\ inFile.exists /\ ~inFile.isfile
    /\ inFile.suffix = ".srt"
    /\ err = "FileReadError"

\* C12 On an existing path FileReader.read fails with the unrecognized-format
\* error exactly when the suffix is none of .srt, .json, .jsonl; for a path
\* that does not exist and has an unrecognized suffix the error is
\* file-not-found.
C12_UnrecognizedFormat ==
    pc # "start" =>
        /\ inFile.exists =>
              (err = "SubtitleTypeNotRecognized" <=> inFile.suffix \notin RecognizedSuffixes)
        /\ (~inFile.exists /\ inFile.suffix \notin RecognizedSuffixes) =>
              (pc = "failed" /\ err = "FileNotFoundError")

C12_Witness ==
    /\ pc = "failed"
    /\ ~inFile.exists
    /\ inFile.suffix \notin RecognizedSuffixes
    /\ err = "FileNotFoundError"

\* C13 For an existing regular file of a recognized suffix that has zero
\* length, FileReader.read fails with FileReadError and no document is
\* returned (translate holds no records and goes no further).
C13_EmptyFileRejected ==
    (pc # "start" /\ inFile.exists /\ inFile.isfile /\ inFile.size = 0
        /\ inFile.suffix \in RecognizedSuffixes) =>
        /\ pc = "failed"
        /\ err = "FileReadError"
        /\ srt_contents = <<>>
        /\ srt_file = PathValue

C13_Witness ==
    /\ pc = "failed"
    /\ inFile.exists /\ inFile.isfile /\ inFile.size = 0
    /\ inFile.suffix = ".json"
    /\ err = "FileReadError"

\* An .srt file without any block
IsBlocklessSrt ==
    /\ inFile.exists /\ inFile.isfile
    /\ inFile.suffix = ".srt"
    /\ inFile.blocks = <<>>

\* C14 (as claimed) For an .srt file with 0 records, an empty file included,
\* read succeeds with an empty record sequence and the language check then
\* fails with the language-detection-failed error.
C14_ScenarioD ==
    (IsBlocklessSrt /\ pc # "start") =>
        \/ pc = "detect" /\ srt_contents = <<>>
        \/ pc = "failed" /\ err = LanguageDetectionFailed /\ calls = <<>>

\* C14 (amended) For an .srt file with 0 records that is not zero-length
\* (blank lines only), read succeeds with an empty record sequence and the
\* language check then fails with the language-detection-failed error
\* without any provider call; a zero-length file is rejected by read with
\* FileReadError.
C14_BlocklessFile ==
    (IsBlocklessSrt /\ pc # "start") =>
        IF inFile.size > 0
        THEN \/ pc = "detect" /\ srt_contents = <<>> /\ err = ""
             \/ pc = "failed" /\ err = LanguageDetectionFailed /\ calls = <<>>
        ELSE pc = "failed" /\ err = "FileReadError"

C14_Witness ==
    /\ IsBlocklessSrt
    /\ inFile.size > 0
    /\ pc = "failed"
    /\ err = LanguageDetectionFailed

C17_SaveVerifiesOutput ==
    pc = "done" => (outFile.st = "written" /\ outFile.blocks # <<>>)

\* C18 Every way a provider call can fail makes translate raise the
\* translation-failed error.
C18_AllFailuresAreTranslationError ==
    \A k \in 1..Len(calls) :
        calls[k].outcome # "ok" => (pc = "failed" /\ err = TranslationFailed)

C16_UnsupportedEncodingError ==
    (enc.pc = "done" /\ enc.file = "ok") =>
        IF enc.guess \in SUPPORTED_ENCODINGS
        THEN enc.result = enc.guess /\ enc.err = ""
        ELSE enc.result = "" /\ enc.err = "UnicodeDecodeError"

\* C20 Deterministic verification: two runs of the language check on the
\* same caption texts with the same expected source language detect the same
\* language and end the same way.
C20_DeterministicVerification ==
    Len(verif.runs) = 2 =>
        /\ verif.runs[1].detected = verif.runs[2].detected
        /\ verif.runs[1].result = verif.runs[2].result

\* C21 SubtitleType.is_valid(s) is True exactly for the subtitle type
\* strings "srt", "json", "jsonl" and "unknown", and False for every other
\* string.
C21_IsValidAcceptsTypeStrings ==
    (enumcls.pc = "answered" /\ enumcls.body = SubtitleTypeBody) =>
        (enumcls.answer <=> enumcls.query \in EnumValues)

PairwiseDistinct(m) == \A i, j \in 1..Len(m) : m[i] = m[j] => i = j

C30_LookupTerminates ==
    /\ enumcls.pc = "missing" => enumcls.depth < RecursionLimit
    /\ enumcls.pc = "failed_lookup" => enumcls.err # "RecursionError"

\* C23 The provider is invoked once per record and never twice for the same
\* record: at any moment the k-th invocation made so far carried the
\* original text of the k-th record with the run's source and target
\* language, and a successful translate of an N-record document has made
\* exactly N invocations.
C23_OneCallPerRecord ==
    (IsSrtInput /\ pc # "start") =>
        /\ Len(calls) <= Len(SrtParse(inFile))
        /\ \A k \in 1..Len(calls) :
              /\ calls[k].text = SrtParse(inFile)[k].content
              /\ calls[k].source = source_language
              /\ calls[k].target = target_language
        /\ TranslateSucceeded => Len(calls) = Len(SrtParse(inFile))

C23_Witness ==
    /\ TranslateSucceeded
    /\ Len(calls) = 2
    /\ calls[1].text # calls[2].text
    /\ calls[1].source = "ja"
    /\ calls[1].target = "en"

\* C24 save emits exactly one block for every record of the held document,
\* in the document's record order, each block with that record's own index,
\* start and end, whatever the records' texts, indices and timings are.
C24_OneBlockPerRecord ==
    pc = "done" =>
        /\ Len(outFile.blocks) = Len(srt_file.subs)
        /\ \A i \in 1..Len(outFile.blocks) :
              /\ outFile.blocks[i].index = srt_file.subs[i].index
              /\ outFile.blocks[i].start = srt_file.subs[i].start
              /\ outFile.blocks[i].end = srt_file.subs[i].end

\* C25 A well-formed timed-caption file stored in any allow-listed encoding
\* is read successfully by FileReader.read, into the same records as its
\* UTF-8 equivalent.
C25_ReadsAllowListedEncodings ==
    rd.pc = "done" =>
        /\ rd.result.err = ""
        /\ rd.result = FileReaderRead(rd.file)

\* C26 Every record of a document FileReader.read returned has its start
\* before its end.
C26_StartBeforeEnd ==
    \A i \in 1..Len(srt_contents) : srt_contents[i].start < srt_contents[i].end

\* C27 When the output file cannot be opened for writing, save fails with
\* IOError("Could not save file.") and with no other kind of exception.
C27_OpenFailureIsIOError ==
    [][(pc = "save" /\ pc' = "failed") => err' = "IOError: Could not save file."]_vars

\* The ways translate() itself fails on a document it has read
TranslateFailures ==
    {LanguageDetectionFailed, LanguageMismatch, TranslationFailed}
        \cup UncaughtTranslatorErrors

\* C28 Whenever translate fails (language not detected, language mismatch,
\* or the provider failing at any record), every record of the parsed
\* document still has its original text, index, start and end, and
\* self.srt_file still holds the input path.
C28_FailureLeavesDocument ==
    (pc = "failed" /\ err \in TranslateFailures) =>
        /\ srt_contents = SrtParse(inFile)
        /\ srt_file = PathValue

C28_Witness ==
    /\ pc = "failed"
    /\ err = TranslationFailed
    /\ Len(calls) = 2
    /\ calls[1].outcome = "ok"
    /\ Len(srt_contents) = 2

\* The positions of the records whose own detected language is the source
\* language, in document order
MatchingPositions ==
    SelectSeq([j \in 1..Len(draft.subs) |-> j],
              LAMBDA j : draft.subs[j].lang = draft.source)

\* C29 In the SRTProcessing.translate draft a record whose own detected
\* language differs from source_language is silently omitted: no
\* translation is requested for it, and unless detection or the provider
\* fails the call returns the composed output, which holds exactly the
\* records whose language is source_language, in their original order.
C29_MismatchedRecordsOmitted ==
    /\ \A c \in 1..Len(draft.calls) :
          draft.subs[draft.calls[c]].lang = draft.source
    /\ (draft.pc \in {"done", "failed"}
        /\ draft.cause \notin CaughtTranslatorErrors \cup {"LangDetectException"}) =>
          /\ draft.pc = "done"
          /\ IndexSeq(draft.out) =
                [j \in 1..Len(MatchingPositions) |-> draft.subs[MatchingPositions[j]].index]
====
